---- MODULE Spec2Model ----
(***************************************************************************)
(* A model of the groww-ir-data scripts:                                   *)
(*   fetch_groww_ir_data.py              the standalone fetcher (JSONL+CSV) *)
(*   fetch_groww_ir_data_with_sheets.py  the fetcher with CSV + spreadsheet *)
(*   workflow_monitor.py                 the Health Reporter                *)
(*   scheduler.py                        the Periodic Driver                *)
(* Each script is a process of its own; the module holds one specification *)
(* per script family: Spec (the two fetch pipelines, which share the files *)
(* of OUTPUT_DIR), SpecMonitor, SpecScheduler / LiveScheduler (the driver  *)
(* alone), SpecDriven (the driver with its child process and the child's   *)
(* sinks) and SpecNormalizer (the two value conversions).                  *)
(***************************************************************************)
EXTENDS Integers, Sequences, FiniteSets, TLC

VARIABLES
    jsonl,    \* groww_ir_data.jsonl: the sequence of its lines
    csv,      \* groww_ir_data.csv: [exists, lines]
    tabs,     \* the spreadsheet: the sequence of its worksheets [title, rows]
    last,     \* what the most recent run of a fetch script did (history)
    ticks,    \* number of fetch-script runs so far
    faults,   \* number of sink faults injected so far
    mon,      \* the Health Reporter's run: its inputs, verdict, posts, exit code
    drv,      \* the Periodic Driver: position, timer, interrupt, last result
    norm      \* the Value Normalizer: the last call, its arguments and result

vars == <<jsonl, csv, tabs, last, ticks, faults, mon, drv, norm>>

fetchVars == <<jsonl, csv, tabs, last, ticks, faults>>

-----------------------------------------------------------------------------
(* Bounds of the model *)

\* runs of the fetch scripts
MaxTicks == 2
\* samples per metric kind in one envelope (values_per_type)
MaxSamples == 1
\* sink faults (I/O errors, remote-service errors) injected over a behaviour
MaxFaults == 1

-----------------------------------------------------------------------------
(* Payloads *)

\* Metric kinds in the order the envelope's 'data' mapping lists them.
KindOrder == <<"AUM", "CNTU">>

NumKinds == Len(KindOrder)

None == [shape |-> "none", types |-> 0, n |-> 0]

\* What response.json() can hand back. "ok" is the documented envelope:
\* {types_count, values_per_type, data: {kind: [{timestamp, value}, ...]}}
\* with the first `types` kinds, `n` samples each.  The other shapes:
\*   falsy              {} / [] / null / 0: fails `if data:`
\*   not_object         a non-empty list, string or number
\*   no_data_key        a non-empty object without 'data'
\*   data_not_mapping   'data' is a list, a string or null
\*   kind_not_list      'data' maps a kind to a number or null
\*   sample_not_object  a kind's list holds a number
OkPayloads ==
    { [shape |-> "ok", types |-> t, n |-> k] : t \in 1..NumKinds, k \in 0..MaxSamples }
      \cup { [shape |-> "ok", types |-> 0, n |-> 0] }

MalformedShapes ==
    { "falsy", "not_object", "no_data_key", "data_not_mapping",
      "kind_not_list", "sample_not_object" }

MalformedPayloads == { [shape |-> s, types |-> 0, n |-> 0] : s \in MalformedShapes }

Payloads == OkPayloads \cup MalformedPayloads

\* Python truthiness of the fetched value (`if data:`).
Truthy(data) == data.shape \notin {"none", "falsy"}

\* isinstance(data, dict)
IsDict(data) == data.shape \in {"ok", "no_data_key", "data_not_mapping",
                                "kind_not_list", "sample_not_object"}

\* isinstance(data, dict) and 'data' in data
HasData(data) == data.shape \in {"ok", "data_not_mapping", "kind_not_list",
                                 "sample_not_object"}

\* The flattening loops `for metric_type, values in data['data'].items():
\* for value_obj in values: value_obj.get(...)` raise (AttributeError,
\* TypeError) on these shapes.
FlattenRaises(data) ==
    data.shape \in {"data_not_mapping", "kind_not_list", "sample_not_object"}

-----------------------------------------------------------------------------
(* Rows *)

Header(c) == [type |-> "header", cols |-> c, tick |-> 0, kind |-> "", idx |-> 0]

Row(c, t, k, i) == [type |-> "row", cols |-> c, tick |-> t, kind |-> k, idx |-> i]

\* The records of one envelope, one per sample, kind by kind; c is the number
\* of columns of the record (4: fetch_time, metric_type, epoch_timestamp,
\* value; 5: with timestamp_readable; 3: a metric sheet's record).
Records(data, t, c) ==
    IF HasData(data) /\ ~FlattenRaises(data)
    THEN [ j \in 1..(data.types * data.n) |->
             Row(c, t, KindOrder[((j - 1) \div data.n) + 1], ((j - 1) % data.n) + 1) ]
    ELSE << >>

\* metric_records[metric_type]
KindRecords(data, t, k) ==
    IF data.shape = "ok"
    THEN [ i \in 1..data.n |-> Row(3, t, KindOrder[k], i) ]
    ELSE << >>

\* len(metric_records): the kinds of the envelope
KindCount(data) == IF data.shape = "ok" THEN data.types ELSE 0

-----------------------------------------------------------------------------
(* Fetcher *)

FetchFailures == {"network_error", "timeout", "http_error"}

FetchOutcomes == FetchFailures \cup {"ok"}

\* A fetcher that does not call raise_for_status().
FetchIgnoringStatus(outcome, payload) ==
    IF outcome \in {"ok", "http_error"} THEN payload ELSE None

\* fetch_groww_data: requests.get + raise_for_status + json(); every
\* RequestException is caught and None returned.
fetch_groww_data(outcome, payload) ==
    IF outcome = "ok" THEN payload ELSE None

-----------------------------------------------------------------------------
(* Appender: files *)

\* save_response(data, 'json'): one line per call, appended; an I/O error is
\* caught and reported.  Returns [file, caught].
save_response_json(file, data, t, ioError) ==
    IF data.shape = "none" THEN [file |-> file, caught |-> FALSE]
    ELSE IF ioError THEN [file |-> file, caught |-> TRUE]
    ELSE [file |-> Append(file, t), caught |-> FALSE]

\* A to_csv that writes the header on every append (header=True).
AppendCsvHeaderAlways(file, records) ==
    [exists |-> TRUE,
     lines |-> file.lines \o << Header(records[1].cols) >> \o records]

\* df.to_csv(filepath, mode='a', header=not file_exists, index=False)
AppendCsv(file, records) ==
    [exists |-> TRUE,
     lines |-> file.lines
                 \o (IF file.exists THEN << >> ELSE << Header(records[1].cols) >>)
                 \o records]

\* The body shared by save_to_csv (4 columns) and save_response(data, 'csv')
\* (5 columns): flatten, then append when there are records; anything raised
\* is caught and reported.  Returns [file, caught].
SaveCsv(file, data, t, c, ioError) ==
    IF data.shape = "none" THEN [file |-> file, caught |-> FALSE]
    ELSE IF FlattenRaises(data) THEN [file |-> file, caught |-> TRUE]
    ELSE IF Records(data, t, c) = << >> THEN [file |-> file, caught |-> FALSE]
    ELSE IF ioError THEN [file |-> file, caught |-> TRUE]
    ELSE [file |-> AppendCsv(file, Records(data, t, c)), caught |-> FALSE]

save_to_csv(file, data, t, ioError) == SaveCsv(file, data, t, 4, ioError)

save_response_csv(file, data, t, ioError) == SaveCsv(file, data, t, 5, ioError)

-----------------------------------------------------------------------------
(* Appender: spreadsheet *)

\* save_to_google_sheets is a sequence of remote calls (open_by_key,
\* worksheet, add_worksheet, append_row, append_rows).  `failAt` is the
\* number of the call of this run that raises (0: none does); a call that
\* raises changes nothing.  The calls thread a state
\*   [tabs, calls, err, h]
\* with the spreadsheet, the calls made so far, whether one has raised, and
\* the index of the worksheet the last lookup-or-create returned.

AllDataTitle == "All Data"

SheetName(k) ==
    IF KindOrder[k] = "AUM" THEN "AUM_Data" ELSE "CNTU_Data"

\* The most remote calls one run can make: open_by_key, then four per tab.
MaxCalls == 1 + 4 * (1 + NumKinds)

\* One remote call: raises if it is call number failAt, else has its effect.
Call(st, failAt, newTabs, handle) ==
    IF st.err THEN st
    ELSE IF st.calls + 1 = failAt
         THEN [st EXCEPT !.calls = @ + 1, !.err = TRUE]
         ELSE [tabs |-> newTabs, calls |-> st.calls + 1, err |-> FALSE, h |-> handle]

\* A lookup that never finds the worksheet.
WorksheetNeverFound(sheet, title) == 0

\* spreadsheet.worksheet(title): the index of the first worksheet with that
\* title, 0 for WorksheetNotFound.
Worksheet(sheet, title) ==
    IF \E i \in 1..Len(sheet) : sheet[i].title = title
    THEN CHOOSE i \in 1..Len(sheet) :
           /\ sheet[i].title = title
           /\ \A j \in 1..(i - 1) : sheet[j].title # title
    ELSE 0

\* spreadsheet.add_worksheet(title=...)
AddWorksheet(sheet, title) == Append(sheet, [title |-> title, rows |-> << >>])

\* worksheet.append_row / append_rows on the worksheet at index h
AppendRows(sheet, h, rows) == [sheet EXCEPT ![h].rows = @ \o rows]

\* try: worksheet(title)  except WorksheetNotFound: add_worksheet(title);
\* append_row(header)
LookupOrCreate(st, failAt, title, c) ==
    LET found == IF st.err THEN 0 ELSE Worksheet(st.tabs, title)
        s1 == Call(st, failAt, st.tabs, found)
    IN  IF s1.err \/ found # 0 THEN s1
        ELSE LET s2 == Call(s1, failAt, AddWorksheet(s1.tabs, title), Len(s1.tabs) + 1)
                 s3 == Call(s2, failAt,
                            IF s2.err THEN s2.tabs
                            ELSE AppendRows(s2.tabs, s2.h, << Header(c) >>),
                            s2.h)
             IN  s3

\* if records: sheet.append_rows(records)
AppendIfAny(st, failAt, rows) ==
    IF rows = << >> \/ st.err THEN st
    ELSE Call(st, failAt, AppendRows(st.tabs, st.h, rows), st.h)

\* One tab's update: lookup-or-create, then append its records.
UpdateTab(st, failAt, title, c, rows) ==
    AppendIfAny(LookupOrCreate(st, failAt, title, c), failAt, rows)

\* for metric_type, records in metric_records.items(): ... (kinds k..last)
RECURSIVE UpdateMetricSheets(_, _, _, _, _)
UpdateMetricSheets(st, failAt, data, t, k) ==
    IF k > KindCount(data) \/ st.err THEN st
    ELSE UpdateMetricSheets(
             UpdateTab(st, failAt, SheetName(k), 3, KindRecords(data, t, k)),
             failAt, data, t, k + 1)

\* A save_to_google_sheets that updates the metric sheets before 'All Data'.
MetricSheetsBeforeAllData(sheet, data, t, failAt) ==
    LET s0 == [tabs |-> sheet, calls |-> 0, err |-> FALSE, h |-> 0]
        s1 == Call(s0, failAt, sheet, 0)
    IN  IF s1.err \/ FlattenRaises(data)
        THEN [tabs |-> s1.tabs, caught |-> TRUE, calls |-> s1.calls]
        ELSE LET s2 == UpdateMetricSheets(s1, failAt, data, t, 1)
                 s3 == UpdateTab(s2, failAt, AllDataTitle, 4, Records(data, t, 4))
             IN  [tabs |-> s3.tabs, caught |-> s3.err, calls |-> s3.calls]

\* save_to_google_sheets(data, client): every exception is caught and
\* reported.  Returns [tabs, caught, calls].
save_to_google_sheets(sheet, data, t, failAt) ==
    LET s0 == [tabs |-> sheet, calls |-> 0, err |-> FALSE, h |-> 0]
        s1 == Call(s0, failAt, sheet, 0)                  \* open_by_key
    IN  IF s1.err \/ FlattenRaises(data)
        THEN [tabs |-> s1.tabs, caught |-> TRUE, calls |-> s1.calls]
        ELSE LET s2 == UpdateTab(s1, failAt, AllDataTitle, 4, Records(data, t, 4))
                 s3 == UpdateMetricSheets(s2, failAt, data, t, 1)
             IN  [tabs |-> s3.tabs, caught |-> s3.err, calls |-> s3.calls]

\* get_google_sheets_client() and GOOGLE_SHEET_ID, as main tests them:
\*   ok           a client and a sheet id
\*   no_client    credentials missing or unusable (None returned)
\*   no_sheet_id  GOOGLE_SHEET_ID unset
SheetsConfigs == {"ok", "no_client", "no_sheet_id"}

-----------------------------------------------------------------------------
(* The fetch scripts' main() *)

\* The data summary printed at the end of main:
\*   if isinstance(data, dict): ... list(data.get('data', {}).keys()) ...
\* raises AttributeError, which nothing catches, when 'data' is present and
\* has no keys().
SummaryRaises(data) == IsDict(data) /\ data.shape = "data_not_mapping"

\* The response body exists for a 2xx and for an error status, not for a
\* network error or a timeout.
Bodies(outcome) == IF outcome \in {"ok", "http_error"} THEN Payloads ELSE {None}

Idle ==
    [tick |-> 0, variant |-> "none", fetch |-> "none", data |-> None,
     attempted |-> {}, caught |-> {}, exit |-> "ok"]

B2N(b) == IF b THEN 1 ELSE 0

\* fetch_groww_ir_data.py: main()
MainStandalone ==
    /\ ticks < MaxTicks
    /\ \E outcome \in FetchOutcomes, jsonError \in BOOLEAN, csvError \in BOOLEAN :
         \E payload \in Bodies(outcome) :
           LET t == ticks + 1
               data == fetch_groww_data(outcome, payload)
               j == save_response_json(jsonl, data, t, jsonError)
               c == save_response_csv(csv, data, t, csvError)
               hits == B2N(Truthy(data) /\ jsonError)
                         + B2N(Truthy(data) /\ csvError /\ c.caught /\ ~FlattenRaises(data))
           IN  /\ faults + hits <= MaxFaults
               /\ (jsonError \/ csvError) => hits > 0
               /\ faults' = faults + hits
               /\ ticks' = t
               /\ IF Truthy(data)
                  THEN /\ jsonl' = j.file
                       /\ csv' = c.file
                       /\ last' = [tick |-> t, variant |-> "standalone",
                                   fetch |-> outcome, data |-> data,
                                   attempted |-> {"jsonl", "csv"},
                                   caught |-> (IF j.caught THEN {"jsonl"} ELSE {})
                                               \cup (IF c.caught THEN {"csv"} ELSE {}),
                                   exit |-> IF SummaryRaises(data) THEN "uncaught" ELSE "ok"]
                  ELSE /\ UNCHANGED <<jsonl, csv>>
                       /\ last' = [tick |-> t, variant |-> "standalone",
                                   fetch |-> outcome, data |-> data,
                                   attempted |-> {}, caught |-> {}, exit |-> "ok"]
    /\ UNCHANGED <<tabs, mon, drv, norm>>

\* fetch_groww_ir_data_with_sheets.py: main(), on the files and the
\* spreadsheet
MainSheetsRun ==
    /\ ticks < MaxTicks
    /\ \E outcome \in FetchOutcomes, csvError \in BOOLEAN,
          config \in SheetsConfigs, failAt \in 0..MaxCalls :
         \E payload \in Bodies(outcome) :
           LET t == ticks + 1
               data == fetch_groww_data(outcome, payload)
               c == save_to_csv(csv, data, t, csvError)
               s == IF config = "ok"
                    THEN save_to_google_sheets(tabs, data, t, failAt)
                    ELSE [tabs |-> tabs, caught |-> TRUE, calls |-> 0]
               sheetHit == Truthy(data) /\ failAt # 0 /\ failAt <= s.calls
               hits == B2N(Truthy(data) /\ csvError /\ c.caught /\ ~FlattenRaises(data))
                         + B2N(sheetHit)
           IN  /\ faults + hits <= MaxFaults
               /\ csvError => hits > 0
               /\ failAt # 0 => sheetHit
               /\ faults' = faults + hits
               /\ ticks' = t
               /\ IF Truthy(data)
                  THEN /\ csv' = c.file
                       /\ tabs' = s.tabs
                       /\ last' = [tick |-> t, variant |-> "sheets",
                                   fetch |-> outcome, data |-> data,
                                   attempted |-> {"csv", "sheets"},
                                   caught |-> (IF c.caught THEN {"csv"} ELSE {})
                                               \cup (IF s.caught THEN {"sheets"} ELSE {}),
                                   exit |-> IF SummaryRaises(data) THEN "uncaught" ELSE "ok"]
                  ELSE /\ UNCHANGED <<csv, tabs>>
                       /\ last' = [tick |-> t, variant |-> "sheets",
                                   fetch |-> outcome, data |-> data,
                                   attempted |-> {}, caught |-> {}, exit |-> "ok"]

\* fetch_groww_ir_data_with_sheets.py: main()
MainSheets ==
    /\ MainSheetsRun
    /\ UNCHANGED <<jsonl, mon, drv, norm>>

-----------------------------------------------------------------------------
(* Health Reporter: workflow_monitor.py *)

\* Bounds on the run lists the CI provider returns: a list is a head of up to
\* MaxHead arbitrary conclusions, then up to MaxPad equal ones, then a tail
\* of up to MaxTail arbitrary ones (so lists longer than the window occur).
MaxHead == 2
MaxPad == 8
MaxTail == 2

\* get_workflow_runs(limit=20)
PerPage == 20
\* recent_runs = runs[:10]
RecentWindow == 10
\* if len(recent_failures) >= 3
FailureThreshold == 3

\* A run's conclusion; "none" is a run still queued or in progress.
Conclusions == {"success", "failure", "none"}

SeqsUpTo(S, n) == UNION { [1..m -> S] : m \in 0..n }

RunLists ==
    { h \o [i \in 1..k |-> c] \o t :
        h \in SeqsUpTo(Conclusions, MaxHead), c \in Conclusions,
        k \in 0..MaxPad, t \in SeqsUpTo(Conclusions, MaxTail) }

\* s[:n]
Take(s, n) == SubSeq(s, 1, IF Len(s) < n THEN Len(s) ELSE n)

Failures(s) == { i \in 1..Len(s) : s[i] = "failure" }

\* What the two GitHub requests of get_workflow_runs do:
\*   ok          both answer; the runs are returned, at most per_page of them
\*   http_error  the first answers with a status other than 200: None
\*   exception   a request raises, or the answer lacks the expected keys
ApiOutcomes == {"ok", "http_error", "exception"}

\* A webhook: unset, or what its POST does: the success status (204 for
\* Discord, 200 for Slack), another status, or a network error (raises).
Webhooks == {"unset", "ok", "status", "network_error"}

\* check_workflow_health, lines 144-231: the verdict over the runs returned.
Verdict(runs) ==
    LET recent_runs == Take(runs, RecentWindow)
        recent_failures == Failures(recent_runs)
    IN  IF Cardinality(recent_failures) >= FailureThreshold THEN "repeated-failures"
        ELSE IF Len(recent_runs) > 0 /\ recent_runs[1] = "failure" THEN "latest-failed"
        ELSE "healthy"

\* send_discord_notification(...); send_slack_notification(...): the POSTs
\* attempted, in order, and whether one raised (nothing in either function
\* or in check_workflow_health catches it).
Notify(discord, slack) ==
    IF discord = "network_error" THEN [posted |-> {"discord"}, raised |-> TRUE]
    ELSE LET d == IF discord = "unset" THEN {} ELSE {"discord"}
         IN  IF slack = "unset" THEN [posted |-> d, raised |-> FALSE]
             ELSE [posted |-> d \cup {"slack"}, raised |-> slack = "network_error"]

\* check_workflow_health(): [verdict, posted, raised, ok], where ok is the
\* value returned and "incomplete" the verdict when the checks could not be
\* made (no token, no runs).
check_workflow_health(token, api, runs, discord, slack) ==
    IF ~token
    THEN [verdict |-> "incomplete", posted |-> {}, raised |-> FALSE, ok |-> FALSE]
    ELSE IF api = "exception"
    THEN [verdict |-> "incomplete", posted |-> {}, raised |-> TRUE, ok |-> FALSE]
    ELSE IF api = "http_error" \/ Take(runs, PerPage) = << >>
    THEN [verdict |-> "incomplete", posted |-> {}, raised |-> FALSE, ok |-> FALSE]
    ELSE LET v == Verdict(Take(runs, PerPage))
             n == Notify(discord, slack)
         IN  IF v = "healthy"
             THEN [verdict |-> v, posted |-> {}, raised |-> FALSE, ok |-> TRUE]
             ELSE [verdict |-> v, posted |-> n.posted, raised |-> n.raised, ok |-> FALSE]

\* __main__: exit(0 if health_ok else 1); except Exception: exit(1)
ExitCode(r) == IF r.raised THEN 1 ELSE IF r.ok THEN 0 ELSE 1

\* One run of the monitor script.  Inputs the run never reads (the API and
\* the webhooks without a token, the runs and the webhooks without an
\* answer) are left at a fixed value.
MonitorMain ==
    /\ mon.pc = "start"
    /\ \E token \in BOOLEAN, api \in ApiOutcomes, runs \in RunLists,
          discord \in Webhooks, slack \in Webhooks :
         /\ ~token => api = "ok"
         /\ (~token \/ api # "ok") => (runs = << >> /\ discord = "unset" /\ slack = "unset")
         /\ LET r == check_workflow_health(token, api, runs, discord, slack)
            IN  mon' = [pc |-> "done", token |-> token, api |-> api, runs |-> runs,
                        discord |-> discord, slack |-> slack,
                        verdict |-> r.verdict, posted |-> r.posted,
                        raised |-> r.raised, exit |-> ExitCode(r)]
    /\ UNCHANGED <<fetchVars, drv, norm>>


-----------------------------------------------------------------------------
(* Periodic Driver: scheduler.py *)

\* The driver's state, drv:
\*   pc           where main() is:
\*                  start            before the initial run_fetch() (line 50)
\*                  initial_fetch    in the initial run_fetch(), child running
\*                  pending          at schedule.run_pending() (line 55)
\*                  scheduled_fetch  in run_fetch() called by run_pending()
\*                  sleep            in time.sleep(10) (line 56)
\*                  stopped          KeyboardInterrupt caught at line 57
\*                  killed           ended by an uncaught KeyboardInterrupt
\*                  crashed          ended by another uncaught exception
\*   wait         seconds until the job's next_run
\*   interrupted  an operator interrupt has arrived
\*   result       how the most recent run_fetch() ended
\*   started      run_fetch() calls so far (counted up to MaxStarted)
\*   interruptedAt       the pc at which the interrupt arrived
\*   startedAtInterrupt  the value of started when it arrived

\* run_fetch() calls counted
MaxStarted == 3

\* schedule.every(5).minutes
IntervalSecs == 300
\* time.sleep(10)
SleepSecs == 10
\* subprocess.run(..., timeout=60)
TimeoutSecs == 60

\* How the child process of one run_fetch() can end:
\*   exit_zero     returncode 0
\*   exit_nonzero  another returncode (the fetch script died on an exception)
\*   timeout       subprocess.run raised TimeoutExpired after 60 s
\*   spawn_error   subprocess.run raised OSError: the child never started
ChildOutcomes == {"exit_zero", "exit_nonzero", "timeout", "spawn_error"}

\* The seconds one run_fetch() can take, in steps of the polling period.
Durations(outcome) ==
    IF outcome = "timeout" THEN {TimeoutSecs}
    ELSE IF outcome = "spawn_error" THEN {0}
    ELSE { k * SleepSecs : k \in 0..((TimeoutSecs \div SleepSecs) - 1) }

Sub(a, b) == IF a > b THEN a - b ELSE 0

Bump(n) == IF n < MaxStarted THEN n + 1 ELSE n

\* A run_fetch whose except clause names subprocess.CalledProcessError only.
RunFetchTimeoutEscapes(outcome) ==
    IF outcome = "timeout" THEN "raised" ELSE "returned"

\* run_fetch(): `except Exception` catches TimeoutExpired and OSError; a
\* non-zero return code is only printed.  "returned" or "raised".
run_fetch(outcome) == "returned"

\* main(), lines 38-50: the banner, schedule.every(5).minutes.do(run_fetch),
\* then the initial run_fetch() starts.
Start ==
    /\ drv.pc = "start"
    /\ drv' = [drv EXCEPT !.pc = "initial_fetch", !.wait = IntervalSecs,
                          !.started = Bump(@)]
    /\ UNCHANGED <<fetchVars, mon, norm>>

\* A run_fetch() ends.  The initial one returns into the loop; a scheduled
\* one returns into run_pending(), which sets next_run = now + 5 minutes, and
\* then main sleeps.  An exception run_fetch lets out is caught by nothing.
AfterFetch(outcome, d) ==
    IF run_fetch(outcome) = "raised"
    THEN [drv EXCEPT !.pc = "crashed", !.result = outcome]
    ELSE IF drv.pc = "initial_fetch"
    THEN [drv EXCEPT !.pc = "pending", !.result = outcome, !.wait = Sub(@, d)]
    ELSE [drv EXCEPT !.pc = "sleep", !.result = outcome, !.wait = IntervalSecs]

FinishFetch ==
    /\ drv.pc \in {"initial_fetch", "scheduled_fetch"}
    /\ \E outcome \in ChildOutcomes :
         \E d \in Durations(outcome) : drv' = AfterFetch(outcome, d)
    /\ UNCHANGED <<fetchVars, mon, norm>>

\* schedule.run_pending(): runs the job if it is due.
RunPending ==
    /\ drv.pc = "pending"
    /\ IF drv.wait = 0
       THEN drv' = [drv EXCEPT !.pc = "scheduled_fetch", !.started = Bump(@)]
       ELSE drv' = [drv EXCEPT !.pc = "sleep"]
    /\ UNCHANGED <<fetchVars, mon, norm>>

\* time.sleep(10)
Sleep ==
    /\ drv.pc = "sleep"
    /\ drv' = [drv EXCEPT !.pc = "pending", !.wait = Sub(@, SleepSecs)]
    /\ UNCHANGED <<fetchVars, mon, norm>>

\* The operator's interrupt: KeyboardInterrupt is raised where main() is.
\* It is no Exception, so run_fetch's `except Exception` lets it through;
\* main's try (lines 53-58) holds the loop only, not the initial run_fetch().
AfterInterrupt ==
    [drv EXCEPT !.interrupted = TRUE, !.interruptedAt = drv.pc,
                !.startedAtInterrupt = drv.started,
                !.pc = IF drv.pc \in {"pending", "scheduled_fetch", "sleep"}
                       THEN "stopped" ELSE "killed"]

Interrupt ==
    /\ drv.pc \in {"start", "initial_fetch", "pending", "scheduled_fetch", "sleep"}
    /\ drv' = AfterInterrupt
    /\ UNCHANGED <<fetchVars, mon, norm>>

SchedulerStep == Start \/ FinishFetch \/ RunPending \/ Sleep

-----------------------------------------------------------------------------
(* Periodic Driver with its child process: scheduler.py running
   fetch_groww_ir_data_with_sheets.py *)

\* subprocess.run kills the child (SIGKILL) when the 60 s timeout expires
\* and when KeyboardInterrupt arrives while it waits.  The child is then
\* somewhere in main():
\*   fetch    in fetch_groww_data, or before it: nothing is written
\*   csv      in save_to_csv's to_csv: the file is open for append and holds
\*            the lines flushed so far
\*   sheets   past save_to_csv, in or before save_to_google_sheets: the
\*            remote calls completed so far have had their effect
\*   summary  past both sinks
KillStages == {"fetch", "csv", "sheets", "summary"}

\* The file after a to_csv cut short once `cut` of its lines are on disk.
PartialCsv(file, records, cut) ==
    [exists |-> TRUE,
     lines |-> file.lines \o SubSeq(AppendCsv([file EXCEPT !.lines = << >>], records).lines,
                                    1, cut)]

\* The spreadsheet after a save_to_google_sheets cut short once `done` of its
\* remote calls have completed.
PartialSheets(sheet, data, t, done) ==
    save_to_google_sheets(sheet, data, t, done + 1).tabs

\* One run of the child that is killed, on the files and the spreadsheet.
KilledRun ==
    /\ ticks < MaxTicks
    /\ \E stage \in KillStages, payload \in Payloads, config \in SheetsConfigs,
          cut \in 0..(NumKinds * MaxSamples + 1), done \in 0..MaxCalls :
         LET t == ticks + 1
             data == IF stage = "fetch" THEN None ELSE fetch_groww_data("ok", payload)
             records == Records(data, t, 4)
             whole == save_to_csv(csv, data, t, FALSE).file
             sheets == IF config = "ok" /\ stage = "sheets"
                       THEN PartialSheets(tabs, data, t, done)
                       ELSE IF config = "ok" /\ stage = "summary"
                       THEN save_to_google_sheets(tabs, data, t, 0).tabs
                       ELSE tabs
         IN  /\ stage = "fetch" => (payload = None /\ config = "ok")
             /\ stage # "fetch" => Truthy(data)
             /\ stage = "csv" =>
                  /\ records # << >>
                  /\ config = "ok"
                  /\ cut <= Len(records) + (IF csv.exists THEN 0 ELSE 1)
             /\ stage # "csv" => cut = 0
             /\ (stage = "sheets" /\ config = "ok") =>
                  done < save_to_google_sheets(tabs, data, t, 0).calls
             /\ ~(stage = "sheets" /\ config = "ok") => done = 0
             /\ ticks' = t
             /\ faults' = faults
             /\ csv' = IF stage = "fetch" THEN csv
                       ELSE IF stage = "csv" THEN PartialCsv(csv, records, cut)
                       ELSE whole
             /\ tabs' = sheets
             /\ last' = [tick |-> t, variant |-> "sheets",
                         fetch |-> IF stage = "fetch" THEN "none" ELSE "ok",
                         data |-> data,
                         attempted |-> IF stage = "fetch" THEN {}
                                       ELSE IF stage = "csv" THEN {"csv"}
                                       ELSE {"csv", "sheets"},
                         caught |-> {}, exit |-> "killed"]

\* The child runs to its end and run_fetch() returns: return code 0, or
\* another one when main() died on an exception.
ChildExits ==
    /\ drv.pc \in {"initial_fetch", "scheduled_fetch"}
    /\ MainSheetsRun
    /\ \E outcome \in {"exit_zero", "exit_nonzero"} :
         /\ (outcome = "exit_zero") = (last'.exit = "ok")
         /\ \E d \in Durations(outcome) : drv' = AfterFetch(outcome, d)
    /\ UNCHANGED <<jsonl, mon, norm>>

\* The child is still running after 60 s: subprocess.run kills it and
\* raises TimeoutExpired.
ChildTimesOut ==
    /\ drv.pc \in {"initial_fetch", "scheduled_fetch"}
    /\ KilledRun
    /\ drv' = AfterFetch("timeout", TimeoutSecs)
    /\ UNCHANGED <<jsonl, mon, norm>>

\* subprocess.run raises OSError: no child has run.
ChildNotSpawned ==
    /\ drv.pc \in {"initial_fetch", "scheduled_fetch"}
    /\ drv' = AfterFetch("spawn_error", 0)
    /\ UNCHANGED <<fetchVars, mon, norm>>

\* The operator's interrupt while the child runs: subprocess.run kills the
\* child and lets KeyboardInterrupt through.
InterruptChild ==
    /\ drv.pc \in {"initial_fetch", "scheduled_fetch"}
    /\ KilledRun
    /\ drv' = AfterInterrupt
    /\ UNCHANGED <<jsonl, mon, norm>>

\* The operator's interrupt while no child runs.
InterruptIdle ==
    /\ drv.pc \notin {"initial_fetch", "scheduled_fetch"}
    /\ Interrupt

-----------------------------------------------------------------------------
(* Value Normalizer: convert_to_crores, epoch_to_formatted_time *)

\* Largest magnitude of the numbers drawn as arguments
MaxVal == 5

\* A JSON value as Python holds it: [tag, num, exp], the number num * 10^exp
\* for the numeric tags.
\*   null      None
\*   int       an int that float() can hold
\*   huge_int  an int beyond the range of a float (abs >= 2^1024), which
\*             json.loads returns for a long integer literal
\*   float     a finite float
\*   inf, nan  the floats json.loads returns for 1e999 / Infinity / NaN
\*   numstr    a string that float() parses
\*   text      any other string
\*   list      a list or an object
NumericTags == {"int", "float", "numstr"}

OtherTags == {"null", "huge_int", "inf", "nan", "text", "list"}

Values ==
    { [tag |-> g, num |-> v, exp |-> 0] : g \in NumericTags, v \in (-MaxVal)..MaxVal }
      \cup { [tag |-> g, num |-> 0, exp |-> 0] : g \in OtherTags }

MetricKinds == { KindOrder[k] : k \in 1..NumKinds }

\* float(value): the float, or the exception raised.
ToFloat(value) ==
    IF value.tag \in {"int", "float", "numstr"}
    THEN [raised |-> "none", value |-> [value EXCEPT !.tag = "float"]]
    ELSE IF value.tag \in {"inf", "nan"} THEN [raised |-> "none", value |-> value]
    ELSE IF value.tag = "huge_int" THEN [raised |-> "OverflowError", value |-> value]
    ELSE IF value.tag = "text" THEN [raised |-> "ValueError", value |-> value]
    ELSE [raised |-> "TypeError", value |-> value]

\* x / 1e7
DivideBy1e7(x) ==
    IF x.tag = "float" THEN [x EXCEPT !.exp = @ - 7] ELSE x

\* convert_to_crores(value, metric_type): [raised, value], with the value
\* returned, or the exception that leaves the function.
convert_to_crores(value, metric_type) ==
    IF metric_type = "CNTU" \/ value.tag = "null"
    THEN [raised |-> "none", value |-> value]
    ELSE LET f == ToFloat(value)
         IN  IF f.raised = "none"
             THEN [raised |-> "none", value |-> DivideBy1e7(f.value)]
             ELSE IF f.raised \in {"ValueError", "TypeError"}
             THEN [raised |-> "none", value |-> value]
             ELSE [raised |-> f.raised, value |-> value]

NormInit ==
    [op |-> "none", kind |-> "", arg |-> [tag |-> "null", num |-> 0, exp |-> 0],
     raised |-> "none", value |-> [tag |-> "null", num |-> 0, exp |-> 0], text |-> ""]

\* One call of convert_to_crores.
ConvertToCrores ==
    /\ \E value \in Values, metric_type \in MetricKinds :
         LET r == convert_to_crores(value, metric_type)
         IN  norm' = [NormInit EXCEPT !.op = "convert_to_crores", !.kind = metric_type,
                                      !.arg = value, !.raised = r.raised,
                                      !.value = r.value]
    /\ UNCHANGED <<fetchVars, mon, drv>>

\* The arguments of epoch_to_formatted_time: the values above (a number is
\* then a count of milliseconds within the years 1..9999), and numbers
\*   out_of_years   whose seconds fit the platform's time_t, not a datetime
\*   out_of_time_t  whose seconds do not fit the platform's time_t
EpochArgs ==
    Values \cup { [tag |-> g, num |-> 0, exp |-> 0] : g \in {"out_of_years", "out_of_time_t"} }

\* epoch_ms / 1000: [raised, value]
DivideBy1000(epoch_ms) ==
    IF epoch_ms.tag \in {"null", "numstr", "text", "list"}
    THEN [raised |-> "TypeError", value |-> epoch_ms]
    ELSE IF epoch_ms.tag = "huge_int"
    THEN [raised |-> "OverflowError", value |-> epoch_ms]
    ELSE [raised |-> "none", value |-> epoch_ms]

\* datetime.fromtimestamp(epoch_seconds, tz=timezone.utc).strftime(...) of
\* the argument's seconds: [raised, sec], sec the whole second formatted.
FromTimestamp(epoch_ms) ==
    IF epoch_ms.tag \in {"int", "float"}
    THEN [raised |-> "none", sec |-> epoch_ms.num \div 1000]
    ELSE IF epoch_ms.tag \in {"out_of_years", "nan"}
    THEN [raised |-> "ValueError", sec |-> 0]
    ELSE [raised |-> "OverflowError", sec |-> 0]

\* epoch_to_formatted_time(epoch_ms): [raised, text, sec]; text is "N/A" or
\* "formatted", the DD/MM/YYYY HH:MM:SS string of second sec.
epoch_to_formatted_time(epoch_ms) ==
    LET d == DivideBy1000(epoch_ms)
        f == FromTimestamp(epoch_ms)
        raised == IF d.raised # "none" THEN d.raised ELSE f.raised
    IN  IF raised = "none"
        THEN [raised |-> "none", text |-> "formatted", sec |-> f.sec]
        ELSE IF raised \in {"ValueError", "TypeError", "OSError"}
        THEN [raised |-> "none", text |-> "N/A", sec |-> 0]
        ELSE [raised |-> raised, text |-> "", sec |-> 0]

\* One call of epoch_to_formatted_time.
EpochToFormattedTime ==
    /\ \E epoch_ms \in EpochArgs :
         LET r == epoch_to_formatted_time(epoch_ms)
         IN  norm' = [NormInit EXCEPT !.op = "epoch_to_formatted_time",
                                      !.arg = epoch_ms, !.raised = r.raised,
                                      !.text = r.text,
                                      !.value = [tag |-> "second", num |-> r.sec, exp |-> 0]]
    /\ UNCHANGED <<fetchVars, mon, drv>>

-----------------------------------------------------------------------------
(* Specifications *)

MonInit == [pc |-> "start"]

DrvInit ==
    [pc |-> "start", wait |-> 0, interrupted |-> FALSE, result |-> "none",
     started |-> 0, interruptedAt |-> "none", startedAtInterrupt |-> 0]

Init ==
    /\ jsonl = << >>
    /\ csv = [exists |-> FALSE, lines |-> << >>]
    /\ tabs = << >>
    /\ last = Idle
    /\ ticks = 0
    /\ faults = 0
    /\ mon = MonInit
    /\ drv = DrvInit
    /\ norm = NormInit

Next == MainStandalone \/ MainSheets

Spec == Init /\ [][Next]_vars

NextMonitor == MonitorMain

SpecMonitor == Init /\ [][NextMonitor]_vars

NextScheduler == SchedulerStep \/ Interrupt

SpecScheduler == Init /\ [][NextScheduler]_vars

\* The driver's process keeps running while it is not ended: its steps are
\* taken eventually.  The operator's interrupt is under no obligation.
LiveScheduler == SpecScheduler /\ WF_vars(SchedulerStep)

NextDriven ==
    \/ Start \/ RunPending \/ Sleep
    \/ ChildExits \/ ChildTimesOut \/ ChildNotSpawned
    \/ InterruptChild \/ InterruptIdle

SpecDriven == Init /\ [][NextDriven]_vars

NextNormalizer == ConvertToCrores \/ EpochToFormattedTime

SpecNormalizer == Init /\ [][NextNormalizer]_vars

-----------------------------------------------------------------------------
(* Properties of the fetch pipelines (Spec) *)

\* The data rows of run t in a sequence of lines
RowsOf(lines, t) == { i \in 1..Len(lines) : lines[i].type = "row" /\ lines[i].tick = t }

HeaderRows(lines) == { i \in 1..Len(lines) : lines[i].type = "header" }

\* No data row of run t in the CSV file or in any worksheet
NoRowOfTick(t) ==
    /\ RowsOf(csv.lines, t) = {}
    /\ \A i \in 1..Len(tabs) : RowsOf(tabs[i].rows, t) = {}

SinksOf(variant) ==
    IF variant = "standalone" THEN {"jsonl", "csv"}
    ELSE IF variant = "sheets" THEN {"csv", "sheets"}
    ELSE {}

\* C1: a run of either fetch script whose fetch fails (network error,
\* timeout, error status) leaves the JSONL file, the CSV file and every
\* worksheet exactly as they were before the run.
C1_FailedFetchAppendsNothing ==
    [][ (last'.tick # last.tick /\ last'.fetch \in FetchFailures)
          => (jsonl' = jsonl /\ csv' = csv /\ tabs' = tabs) ]_vars

\* C1 witness: a failed fetch in a run that follows a run which filled the
\* CSV file and the spreadsheet.
C1_Witness ==
    /\ last.fetch \in FetchFailures
    /\ last.tick >= 2
    /\ csv.exists /\ Len(csv.lines) >= 2
    /\ tabs # << >>

\* C2: once the CSV file exists it holds exactly one header row, and that
\* row is its first line, whatever appends (by either script, of any number
\* of records) have been made.
C2_OneHeaderFirst ==
    /\ csv.exists => (Len(csv.lines) >= 1 /\ HeaderRows(csv.lines) = {1})
    /\ ~csv.exists => csv.lines = << >>

\* C2 witness: the file holds the rows of two different appends.
C2_Witness ==
    /\ csv.exists
    /\ RowsOf(csv.lines, 1) # {}
    /\ RowsOf(csv.lines, 2) # {}

\* C3: the spreadsheet never holds two worksheets with the same title: at
\* most one 'All Data' and at most one '<kind>_Data' per metric kind.
C3_NoDuplicateTabs ==
    \A i, j \in 1..Len(tabs) : tabs[i].title = tabs[j].title => i = j

\* C3 witness: a metric sheet and 'All Data' each appended to by two runs.
C3_Witness ==
    /\ \E i \in 1..Len(tabs) :
         /\ tabs[i].title = SheetName(1)
         /\ RowsOf(tabs[i].rows, 1) # {} /\ RowsOf(tabs[i].rows, 2) # {}
    /\ \E i \in 1..Len(tabs) :
         /\ tabs[i].title = AllDataTitle
         /\ RowsOf(tabs[i].rows, 1) # {} /\ RowsOf(tabs[i].rows, 2) # {}

\* C7: in a run with a successful fetch, an error raised while writing one
\* sink (or missing spreadsheet configuration) is caught, the other sinks of
\* the run are still written, and the run finishes normally.
C7_SinkFailureNeverFatal ==
    (last.fetch = "ok" /\ Truthy(last.data) /\ last.caught # {})
      => (last.attempted = SinksOf(last.variant) /\ last.exit = "ok")

\* C8: a fetched payload without the expected shape is treated as zero
\* records: no row of the run reaches the CSV file or a worksheet, and the
\* run finishes normally, with no uncaught error.
C8_MalformedIsZeroRecords ==
    (last.fetch = "ok" /\ last.data.shape \in MalformedShapes)
      => (NoRowOfTick(last.tick) /\ last.exit = "ok")

-----------------------------------------------------------------------------
(* Properties of the Health Reporter (SpecMonitor) *)

Degraded == {"repeated-failures", "latest-failed"}

\* C4: for every list of runs the CI provider returns (newest first, of any
\* length), the verdict is decided by the 10 most recent runs: at least 3 of
\* them failed: Degraded(repeated-failures); else the most recent one
\* failed: Degraded(latest-failed); else Healthy.
C4_VerdictByRecentWindow ==
    (mon.pc = "done" /\ mon.token /\ mon.api = "ok")
      => LET n == IF Len(mon.runs) < 10 THEN Len(mon.runs) ELSE 10
             failed == { i \in 1..n : mon.runs[i] = "failure" }
         IN  mon.verdict =
               IF Cardinality(failed) >= 3 THEN "repeated-failures"
               ELSE IF n >= 1 /\ mon.runs[1] = "failure" THEN "latest-failed"
               ELSE "healthy"

\* C5: with a Degraded verdict and both webhooks configured, a POST is
\* attempted to each of them, whatever happens to the other one's POST.
C5_DispatchesIndependent ==
    (mon.pc = "done" /\ mon.verdict \in Degraded
       /\ mon.discord # "unset" /\ mon.slack # "unset")
      => mon.posted = {"discord", "slack"}

\* C6: the monitor exits with 0 on Healthy, with a non-zero code on
\* Degraded, and with another non-zero code when it cannot complete its
\* checks (no token, CI provider unreachable or erroring, an exception).
C6_ExitCodes ==
    mon.pc = "done" =>
      /\ mon.verdict = "healthy" => mon.exit = 0
      /\ mon.verdict \in Degraded => mon.exit # 0
      /\ mon.verdict = "incomplete" =>
           /\ mon.exit # 0
           /\ mon.exit # ExitCode([raised |-> FALSE, ok |-> FALSE])

-----------------------------------------------------------------------------
(* Properties of the Periodic Driver (SpecScheduler, LiveScheduler) *)

Ended == {"stopped", "killed", "crashed"}

\* C9: an operator interrupt, whenever it arrives (initial tick, scheduled
\* tick, sleep), ends the driver through its graceful stop path
\* (KeyboardInterrupt caught, "Scheduler stopped"), and no tick is started
\* after it.
C9_InterruptStopsGracefully ==
    (drv.interrupted
       /\ drv.interruptedAt \in {"initial_fetch", "pending", "scheduled_fetch", "sleep"})
      => (drv.pc = "stopped" /\ drv.started = drv.startedAtInterrupt)

\* C10: nothing but an operator interrupt ends the driver, whatever way a
\* tick fails, and every tick that has ended is followed by the start of
\* another one unless an interrupt arrives.
C10_KeepsTicking ==
    /\ [](drv.pc \in Ended => drv.interrupted)
    /\ \A r \in ChildOutcomes :
         (drv.pc \in {"pending", "sleep"} /\ drv.result = r)
           ~> (drv.pc = "scheduled_fetch" \/ drv.interrupted)

\* C10 witness: a tick has started after a tick that ended in the
\* subprocess timeout, with no interrupt so far.
C10_Witness ==
    /\ drv.pc = "scheduled_fetch"
    /\ drv.result = "timeout"
    /\ drv.started >= 2
    /\ ~drv.interrupted

-----------------------------------------------------------------------------
(* Properties of the Value Normalizer (SpecNormalizer) *)

\* C11: convert_to_crores never raises; null gives null for every kind; for
\* CNTU any value is returned unchanged; for another kind a number v gives
\* v / 10^7; a value that cannot be converted to a number is returned
\* unchanged.
C11_ConvertTotal ==
    norm.op = "convert_to_crores" =>
      /\ norm.raised = "none"
      /\ norm.arg.tag = "null" => norm.value = norm.arg
      /\ norm.kind = "CNTU" => norm.value = norm.arg
      /\ (norm.kind # "CNTU" /\ norm.arg.tag \in {"int", "float"}) =>
           (norm.value.num = norm.arg.num /\ norm.value.exp = norm.arg.exp - 7)
      /\ (norm.kind # "CNTU" /\ norm.arg.tag \in {"text", "list"}) =>
           norm.value = norm.arg

\* C12: epoch_to_formatted_time never raises, and returns 'N/A' for every
\* argument that is no valid timestamp: None, a value of the wrong type, a
\* number outside the representable date range.
C12_EpochNeverRaises ==
    norm.op = "epoch_to_formatted_time" =>
      /\ norm.raised = "none"
      /\ norm.arg.tag \notin {"int", "float"} => norm.text = "N/A"

\* The records (run, kind, index) among the data rows of the worksheets
\* titled `title`
TabRecords(title) ==
    { <<tabs[i].rows[j].tick, tabs[i].rows[j].kind, tabs[i].rows[j].idx>> :
        <<i, j>> \in { p \in (1..Len(tabs)) \X (1..(MaxTicks * NumKinds * MaxSamples + 1)) :
                         /\ tabs[p[1]].title = title
                         /\ p[2] <= Len(tabs[p[1]].rows)
                         /\ tabs[p[1]].rows[p[2]].type = "row" } }

\* The records of kind KindOrder[k] among a set of records
OfKind(recs, k) == { r \in recs : r[2] = KindOrder[k] }

\* C14 (as claimed): the data rows of 'All Data' are exactly the records of
\* the metric sheets taken together, each record in the sheet of its kind,
\* also after runs cut short by an error of the remote service.
C14_AllDataEqualsKindTabs ==
    \A k \in 1..NumKinds :
      OfKind(TabRecords(AllDataTitle), k) = TabRecords(SheetName(k))

\* C14 (amended): every record held by a metric sheet is of that sheet's kind
\* and is also held by 'All Data'; a run cut short by an error of the remote
\* service may leave records in 'All Data' that no metric sheet holds.
C14_KindTabsWithinAllData ==
    \A k \in 1..NumKinds :
      TabRecords(SheetName(k)) \subseteq OfKind(TabRecords(AllDataTitle), k)

\* C14 witness: a run cut short between two metric sheets: the first kind's
\* sheet holds the run's records, the second kind's sheet lacks records that
\* 'All Data' holds.
C14_Witness ==
    /\ "sheets" \in last.caught
    /\ TabRecords(SheetName(1)) # {}
    /\ OfKind(TabRecords(AllDataTitle), 2) \ TabRecords(SheetName(2)) # {}

\* C15: every worksheet of the spreadsheet has its header row as its first
\* row, ahead of every data row, whichever remote calls have failed.
C15_TabHeaderFirst ==
    \A i \in 1..Len(tabs) :
      tabs[i].rows # << >> => HeaderRows(tabs[i].rows) = {1}

\* C16: every data row of groww_ir_data.csv has the columns of the file's
\* header row, whichever of the two fetch scripts made the appends.
C16_CsvRowsMatchHeader ==
    \A i \in 1..Len(csv.lines) : csv.lines[i].cols = csv.lines[1].cols

-----------------------------------------------------------------------------
(* Properties of the Periodic Driver with its child (SpecDriven) *)

\* The lines hold none or all n of the data rows of run t
CompleteOrAbsent(lines, t, n) == Cardinality(RowsOf(lines, t)) \in {0, n}

\* The records the latest run has for the worksheet titled `title`
RecordsFor(title) ==
    IF title = AllDataTitle THEN Len(Records(last.data, last.tick, 4))
    ELSE Cardinality({ k \in 1..KindCount(last.data) :
                         SheetName(k) = title /\ last.data.shape = "ok" }) * last.data.n

\* C13: at every interval check of the driver (schedule.run_pending) and
\* when the driver has ended, the latest run started, also one ended by the
\* 60-second timeout, is complete-or-absent in the CSV file and in every
\* worksheet: the sink holds all of the run's records or none of them.
C13_CompleteOrAbsent ==
    (drv.pc \in {"pending"} \cup Ended /\ last.tick > 0) =>
      /\ CompleteOrAbsent(csv.lines, last.tick, Len(Records(last.data, last.tick, 4)))
      /\ \A i \in 1..Len(tabs) :
           CompleteOrAbsent(tabs[i].rows, last.tick, RecordsFor(tabs[i].title))

====
